---- MODULE Spec2Model ----
(***************************************************************************)
(* Checklist editor: the Checklist container (src/src/components/          *)
(* Checklist.tsx) and the ChecklistItem row (src/unnamed/part_000).        *)
(*                                                                         *)
(* Strings are sequences of one-character strings, so that trim() is       *)
(* computed and not assumed.  Indices are JavaScript's: 0-based, with -1   *)
(* for "not found".  null is modelled by Null; ids are Date.now() values   *)
(* and are positive.  Date.now() is the wall clock: two reads can return   *)
(* the same millisecond, so a handler takes its stamp as an input.         *)
(*                                                                         *)
(* One step is one event: the handler, the parent's update of the list,    *)
(* and the re-render React flushes before the next event is dispatched.    *)
(*                                                                         *)
(* The container addresses items by id.  In the properties "the item with  *)
(* id x" is every item of the list carrying x (one item when ids are       *)
(* distinct), and the position of an id is that of its first occurrence,   *)
(* as findIndex resolves it; counts of items are taken literally.          *)
(***************************************************************************)
EXTENDS Integers, Sequences, FiniteSets

VARIABLES
    items,          \* checklist.items as held by the parent list manager
    rendered,       \* checklist.items as captured by the handlers of the last render
    rows,           \* per rendered row: [isEditing, editText] of its ChecklistItem
    newItemText,    \* the add-item input buffer
    dragItemId,     \* dragItemId.current
    dragOverItemId, \* dragOverItemId.current
    draggingId,     \* draggingId state
    op              \* last handler that ran, whether it called onUpdate, the text it was given

vars == <<items, rendered, rows, newItemText, dragItemId, dragOverItemId, draggingId, op>>

----------------------------------------------------------------------------
(* Bounds of the model *)

\* longest list the add handlers are explored to
MaxItems == 2
\* Date.now() returns a value in 1..MaxStamp
MaxStamp == 2
\* longest list, and largest id, of the lists the drag handlers are explored on
MaxRows == 4

(* Program constants *)

Null == 0
MaxIndent == 5
MinIndent == 0

Stamps == 1..MaxStamp

----------------------------------------------------------------------------
(* Strings *)

NewSection == <<"N", "e", "w", " ", "S", "e", "c", "t", "i", "o", "n">>
Empty == <<>>

\* what the user types into the add-item input or into a row's edit input
Texts == { Empty, <<" ">>, <<"\t">>, <<" ", "a", " ">> }

IsWhite(c) == c \in {" ", "\t"}

RECURSIVE TrimStart(_)
TrimStart(s) == IF s # <<>> /\ IsWhite(Head(s)) THEN TrimStart(Tail(s)) ELSE s

RECURSIVE TrimEnd(_)
TrimEnd(s) ==
    IF s # <<>> /\ IsWhite(s[Len(s)]) THEN TrimEnd(SubSeq(s, 1, Len(s) - 1)) ELSE s

\* String.prototype.trim
Trim(s) == TrimEnd(TrimStart(s))

----------------------------------------------------------------------------
(* Arrays *)

RECURSIVE FindFrom(_, _, _)
FindFrom(its, id, k) ==
    IF k > Len(its) THEN -1
    ELSE IF its[k].id = id THEN k - 1
    ELSE FindFrom(its, id, k + 1)

\* items.findIndex(item => item.id === id)
FindIndex(its, id) == FindFrom(its, id, 1)

\* the array left by a.splice(i, 1), i a 0-based index of a
SpliceOut(a, i) == SubSeq(a, 1, i) \o SubSeq(a, i + 2, Len(a))

\* the array left by a.splice(i, 0, x); splice clamps i to the length
SpliceIn(a, i, x) ==
    LET at == IF i > Len(a) THEN Len(a) ELSE i
    IN  SubSeq(a, 1, at) \o <<x>> \o SubSeq(a, at + 1, Len(a))

RECURSIVE KeepOthers(_, _, _)
KeepOthers(a, its, id) ==
    IF its = <<>> THEN <<>>
    ELSE IF Head(its).id # id
         THEN <<Head(a)>> \o KeepOthers(Tail(a), Tail(its), id)
         ELSE KeepOthers(Tail(a), Tail(its), id)

----------------------------------------------------------------------------
(* The new list each container handler computes from checklist.items *)

\* an item that stores the trimmed input
NewItemTrimmed(stamp, text) ==
    [id |-> stamp, text |-> Trim(text), type |-> "item", completed |-> FALSE,
     indentation |-> 0]

NewItem(stamp, text) ==
    [id |-> stamp, text |-> text, type |-> "item", completed |-> FALSE, indentation |-> 0]

NewSectionItem(stamp) ==
    [id |-> stamp, text |-> NewSection, type |-> "section", completed |-> FALSE,
     indentation |-> 0]

\* handleAddItem testing the input without trimming it
AddItemRejectsEmptyOnly(text) == text = Empty

\* handleAddItem returns early on this
AddItemRejects(text) == Trim(text) = Empty

AddItemItems(its, stamp, text) == Append(its, NewItem(stamp, text))

\* handleAddSection putting the new section first
AddSectionItemsFirst(its, stamp) == <<NewSectionItem(stamp)>> \o its

AddSectionItems(its, stamp) == Append(its, NewSectionItem(stamp))

\* handleToggleItem without the test of the id
ToggleItemsAll(its, id) ==
    [k \in DOMAIN its |-> [its[k] EXCEPT !.completed = ~its[k].completed]]

ToggleItems(its, id) ==
    [k \in DOMAIN its |->
        IF its[k].id = id THEN [its[k] EXCEPT !.completed = ~its[k].completed]
        ELSE its[k]]

DeleteItems(its, id) == KeepOthers(its, its, id)

\* handleUpdateItemText without the test of the id
UpdateTextItemsAll(its, id, newText) ==
    [k \in DOMAIN its |-> [its[k] EXCEPT !.text = newText]]

UpdateTextItems(its, id, newText) ==
    [k \in DOMAIN its |->
        IF its[k].id = id THEN [its[k] EXCEPT !.text = newText] ELSE its[k]]

Min(a, b) == IF a < b THEN a ELSE b
Max(a, b) == IF a > b THEN a ELSE b

\* handleIndentItem without Math.min and Math.max
NewIndentationUnclamped(indentation, direction) ==
    IF direction = "increase" THEN indentation + 1 ELSE indentation - 1

NewIndentation(indentation, direction) ==
    IF direction = "increase"
    THEN Min(indentation + 1, MaxIndent)
    ELSE Max(indentation - 1, MinIndent)

\* handleIndentItem skipping completed items
IndentItemsUncompleted(its, id, direction) ==
    [k \in DOMAIN its |->
        IF its[k].id = id /\ its[k].type = "item" /\ ~its[k].completed
        THEN [its[k] EXCEPT !.indentation = NewIndentation(its[k].indentation, direction)]
        ELSE its[k]]

IndentItems(its, id, direction) ==
    [k \in DOMAIN its |->
        IF its[k].id = id /\ its[k].type = "item"
        THEN [its[k] EXCEPT !.indentation = NewIndentation(its[k].indentation, direction)]
        ELSE its[k]]

\* handleDrop without the test for equal positions
DropRejectsUnlessMissing(dragged, over, draggedIndex, targetIndex) ==
    \/ dragged = Null
    \/ over = Null
    \/ draggedIndex = -1
    \/ targetIndex = -1

\* handleDrop returns early on this
DropRejects(dragged, over, draggedIndex, targetIndex) ==
    \/ dragged = Null
    \/ over = Null
    \/ draggedIndex = -1
    \/ targetIndex = -1
    \/ draggedIndex = targetIndex

\* handleDrop with the target index "corrected" for the removal
DropItemsShifted(a, draggedIndex, targetIndex) ==
    SpliceIn(SpliceOut(a, draggedIndex),
             IF draggedIndex < targetIndex THEN targetIndex - 1 ELSE targetIndex,
             a[draggedIndex + 1])

\* handleDrop inserting the dragged item without removing it first
DropItemsCopied(a, draggedIndex, targetIndex) ==
    SpliceIn(a, targetIndex, a[draggedIndex + 1])

DropItems(a, draggedIndex, targetIndex) ==
    SpliceIn(SpliceOut(a, draggedIndex), targetIndex, a[draggedIndex + 1])

----------------------------------------------------------------------------
(* Rows *)

\* a freshly mounted ChecklistItem
NewRow(item) == [isEditing |-> FALSE, editText |-> item.text]

\* the effect on [item.text]: a row whose item.text changed takes it as editText
SyncRows(rs, old, new) ==
    [k \in DOMAIN rs |->
        IF new[k].text # old[k].text THEN [rs[k] EXCEPT !.editText = new[k].text]
        ELSE rs[k]]

----------------------------------------------------------------------------
(* Publishing a new list *)

\* the parent list manager's update(checklist.id, {items: newItems}): the list is
\* replaced, and the re-render that ends the event hands it to the handlers and rows
ParentUpdate(newItems, newRows) ==
    /\ items' = newItems
    /\ rendered' = newItems
    /\ rows' = newRows

\* handleItemsChange
OnUpdate(newItems, newRows) == ParentUpdate(newItems, newRows)

NoUpdate == UNCHANGED <<items, rendered, rows>>

Ran(name, called, text) == op' = [name |-> name, called |-> called, text |-> text]

----------------------------------------------------------------------------
(* Checklist container *)

SetNewItemText(text) ==
    /\ newItemText' = text
    /\ Ran("input", FALSE, text)
    /\ NoUpdate
    /\ UNCHANGED <<dragItemId, dragOverItemId, draggingId>>

HandleAddItem(stamp) ==
    /\ IF AddItemRejects(newItemText)
       THEN /\ NoUpdate
            /\ UNCHANGED newItemText
            /\ Ran("addItem", FALSE, newItemText)
       ELSE /\ Len(rendered) < MaxItems
            /\ LET newItems == AddItemItems(rendered, stamp, newItemText)
               IN  OnUpdate(newItems, Append(rows, NewRow(newItems[Len(newItems)])))
            /\ newItemText' = Empty
            /\ Ran("addItem", TRUE, newItemText)
    /\ UNCHANGED <<dragItemId, dragOverItemId, draggingId>>

HandleAddSection(stamp) ==
    /\ Len(rendered) < MaxItems
    /\ LET newItems == AddSectionItems(rendered, stamp)
       IN  OnUpdate(newItems, Append(rows, NewRow(newItems[Len(newItems)])))
    /\ Ran("addSection", TRUE, Empty)
    /\ UNCHANGED <<newItemText, dragItemId, dragOverItemId, draggingId>>

HandleToggleItem(id) ==
    /\ OnUpdate(ToggleItems(rendered, id), rows)
    /\ Ran("toggle", TRUE, Empty)
    /\ UNCHANGED <<newItemText, dragItemId, dragOverItemId, draggingId>>

HandleDeleteItem(id) ==
    /\ OnUpdate(DeleteItems(rendered, id), KeepOthers(rows, rendered, id))
    /\ Ran("delete", TRUE, Empty)
    /\ UNCHANGED <<newItemText, dragItemId, dragOverItemId, draggingId>>

HandleUpdateItemText(id, newText) ==
    /\ LET newItems == UpdateTextItems(rendered, id, newText)
       IN  OnUpdate(newItems, SyncRows(rows, rendered, newItems))
    /\ Ran("updateText", TRUE, newText)
    /\ UNCHANGED <<newItemText, dragItemId, dragOverItemId, draggingId>>

HandleIndentItem(id, direction) ==
    /\ OnUpdate(IndentItems(rendered, id, direction), rows)
    /\ Ran("indent", TRUE, Empty)
    /\ UNCHANGED <<newItemText, dragItemId, dragOverItemId, draggingId>>

HandleDragStart(id) ==
    /\ dragItemId' = id
    /\ draggingId' = id
    /\ Ran("dragStart", FALSE, Empty)
    /\ NoUpdate
    /\ UNCHANGED <<newItemText, dragOverItemId>>

HandleDragEnter(id) ==
    /\ dragOverItemId' = id
    /\ Ran("dragEnter", FALSE, Empty)
    /\ NoUpdate
    /\ UNCHANGED <<newItemText, dragItemId, draggingId>>

HandleDrop ==
    /\ LET draggedIndex == FindIndex(rendered, dragItemId)
           targetIndex == FindIndex(rendered, dragOverItemId)
       IN  IF DropRejects(dragItemId, dragOverItemId, draggedIndex, targetIndex)
           THEN /\ NoUpdate
                /\ Ran("drop", FALSE, Empty)
           ELSE /\ OnUpdate(DropItems(rendered, draggedIndex, targetIndex),
                            DropItems(rows, draggedIndex, targetIndex))
                /\ Ran("drop", TRUE, Empty)
    /\ UNCHANGED <<newItemText, dragItemId, dragOverItemId, draggingId>>

\* handleDragEnd that resets the draggingId state and leaves the two refs
HandleDragEndKeepsRefs ==
    /\ draggingId' = Null
    /\ Ran("dragEnd", FALSE, Empty)
    /\ NoUpdate
    /\ UNCHANGED <<newItemText, dragItemId, dragOverItemId>>

HandleDragEnd ==
    /\ dragItemId' = Null
    /\ dragOverItemId' = Null
    /\ draggingId' = Null
    /\ Ran("dragEnd", FALSE, Empty)
    /\ NoUpdate
    /\ UNCHANGED newItemText

----------------------------------------------------------------------------
(* ChecklistItem row k: its item is rendered[k], its state rows[k] *)

\* handleSave without the trim
SaveCommitsUntrimmed(editText, text) == editText # Empty /\ editText # text

\* handleSave calls onUpdateText on this, and reverts editText otherwise
SaveCommits(editText, text) == Trim(editText) # Empty /\ editText # text

\* the edit input takes the focus when a row starts editing, and gives it up
\* (onBlur) before a pointer event reaches another element
NoRowEditing == \A k \in DOMAIN rows : ~rows[k].isEditing

\* handleDoubleClick refusing every completed entry, sections included
DoubleClickRefusesCompleted(item) == item.completed

\* handleDoubleClick returns early on this
DoubleClickRefuses(item) == item.type = "item" /\ item.completed

HandleDoubleClick(k) ==
    /\ NoRowEditing
    /\ rows' = IF DoubleClickRefuses(rendered[k])
               THEN rows
               ELSE [rows EXCEPT ![k].isEditing = TRUE]
    /\ Ran("doubleClick", FALSE, Empty)
    /\ UNCHANGED <<items, rendered, newItemText, dragItemId, dragOverItemId, draggingId>>

SetEditText(k, text) ==
    /\ rows[k].isEditing
    /\ rows' = [rows EXCEPT ![k].editText = text]
    /\ Ran("edit", FALSE, text)
    /\ UNCHANGED <<items, rendered, newItemText, dragItemId, dragOverItemId, draggingId>>

HandleSave(k, name) ==
    /\ rows[k].isEditing
    /\ LET item == rendered[k]
           editText == rows[k].editText
       IN  IF SaveCommits(editText, item.text)
           THEN /\ LET newItems == UpdateTextItems(rendered, item.id, editText)
                   IN  OnUpdate(newItems,
                                [SyncRows(rows, rendered, newItems) EXCEPT ![k].isEditing = FALSE])
                /\ Ran(name, TRUE, editText)
           ELSE /\ rows' = [rows EXCEPT ![k] = [isEditing |-> FALSE, editText |-> item.text]]
                /\ UNCHANGED <<items, rendered>>
                /\ Ran(name, FALSE, editText)
    /\ UNCHANGED <<newItemText, dragItemId, dragOverItemId, draggingId>>

KeyDownEnter(k) == HandleSave(k, "enter")

Blur(k) == HandleSave(k, "blur")

\* Escape leaving edit mode without the reset of editText
EscapeRowKeepsBuffer(row, item) == [row EXCEPT !.isEditing = FALSE]

\* the row after Escape: setEditText(item.text); setIsEditing(false)
EscapeRow(row, item) == [isEditing |-> FALSE, editText |-> item.text]

KeyDownEscape(k) ==
    /\ rows[k].isEditing
    /\ rows' = [rows EXCEPT ![k] = EscapeRow(rows[k], rendered[k])]
    /\ Ran("escape", FALSE, rows[k].editText)
    /\ UNCHANGED <<items, rendered, newItemText, dragItemId, dragOverItemId, draggingId>>

\* Tab read with the shift modifier inverted
TabDirectionSwapped(shiftKey) == IF shiftKey THEN "increase" ELSE "decrease"

\* e.shiftKey ? 'decrease' : 'increase'
TabDirection(shiftKey) == IF shiftKey THEN "decrease" ELSE "increase"

\* the Tab branch of handleKeyDown; in a section row no branch is taken
KeyDownTab(k, shiftKey) ==
    /\ rows[k].isEditing
    /\ IF rendered[k].type = "item"
       THEN /\ OnUpdate(IndentItems(rendered, rendered[k].id, TabDirection(shiftKey)), rows)
            /\ Ran("tab", TRUE, rows[k].editText)
       ELSE /\ NoUpdate
            /\ Ran("tab", FALSE, rows[k].editText)
    /\ UNCHANGED <<newItemText, dragItemId, dragOverItemId, draggingId>>

----------------------------------------------------------------------------
(* Specifications *)

InitWith(list) ==
    /\ items = list
    /\ rendered = list
    /\ rows = [k \in DOMAIN list |-> NewRow(list[k])]
    /\ newItemText = Empty
    /\ dragItemId = Null
    /\ dragOverItemId = Null
    /\ draggingId = Null
    /\ op = [name |-> "mount", called |-> FALSE, text |-> Empty]

\* what the rows pass to the container: the id of a rendered item
RowIds == { rendered[k].id : k \in DOMAIN rendered }

\* the texts a row can pass to onUpdateText
RenameTexts == { t \in Texts \cup {NewSection} : Trim(t) # Empty }

Directions == {"increase", "decrease"}

(* The container: every handler of Checklist.tsx, on a checklist that starts empty *)

Init == InitWith(<<>>)

Next ==
    \/ \E text \in Texts : SetNewItemText(text)
    \/ \E stamp \in Stamps : HandleAddItem(stamp)
    \/ \E stamp \in Stamps : HandleAddSection(stamp)
    \/ \E id \in Stamps : HandleToggleItem(id)
    \/ \E id \in Stamps : HandleDeleteItem(id)
    \/ \E id \in Stamps, text \in RenameTexts : HandleUpdateItemText(id, text)
    \/ \E id \in Stamps, direction \in Directions : HandleIndentItem(id, direction)
    \/ \E id \in RowIds : HandleDragStart(id)
    \/ \E id \in RowIds : HandleDragEnter(id)
    \/ HandleDrop
    \/ HandleDragEnd

Spec == Init /\ [][Next]_vars

(* The drag handlers, and delete, on every list of at most MaxRows items with ids in *)
(* 1..MaxRows, repeated ids included                                               *)

RowIdSeqs == UNION { [1..n -> 1..MaxRows] : n \in 0..MaxRows }

\* a repeat of an id before it in the list is completed, so that it is told from
\* the first item with that id
DragLists ==
    { [k \in DOMAIN ids |->
          [NewItem(ids[k], <<" ", "a", " ">>)
              EXCEPT !.completed = \E m \in 1..(k - 1) : ids[m] = ids[k]]]
      : ids \in RowIdSeqs }

InitReorder == \E list \in DragLists : InitWith(list)

NextReorder ==
    \/ \E id \in RowIds : HandleDragStart(id)
    \/ \E id \in RowIds : HandleDragEnter(id)
    \/ HandleDrop
    \/ HandleDragEnd
    \/ \E id \in RowIds : HandleDeleteItem(id)

SpecReorder == InitReorder /\ [][NextReorder]_vars

----------------------------------------------------------------------------
(* Toggle and indent, on every list of at most MaxItems items and sections *)

FieldEntries ==
    { NewItem(id, <<" ", "a", " ">>) : id \in Stamps } \cup { NewSectionItem(id) : id \in Stamps }

FieldLists == UNION { [1..n -> FieldEntries] : n \in 0..MaxItems }

InitFields == \E list \in FieldLists : InitWith(list)

NextFields ==
    \/ \E id \in Stamps : HandleToggleItem(id)
    \/ \E id \in Stamps, direction \in Directions : HandleIndentItem(id, direction)

SpecFields == InitFields /\ [][NextFields]_vars

(* Toggle and indent, on every list of at most MaxItems new items "A" *)

EndToEndLists == UNION { [1..n -> { NewItem(id, <<"A">>) : id \in Stamps }] : n \in 0..MaxItems }

InitEndToEnd == \E list \in EndToEndLists : InitWith(list)

SpecEndToEnd == InitEndToEnd /\ [][NextFields]_vars

(* The add-item form and the add-section button, on a checklist that starts empty *)

NextAdd ==
    \/ \E text \in Texts : SetNewItemText(text)
    \/ \E stamp \in Stamps : HandleAddItem(stamp)
    \/ \E stamp \in Stamps : HandleAddSection(stamp)

SpecAdd == Init /\ [][NextAdd]_vars

(* Inline editing in the rows, on every list of at most MaxItems items and sections, *)
(* completed or not                                                                  *)

RowEntries ==
    FieldEntries \cup { [e EXCEPT !.completed = TRUE] : e \in FieldEntries }

RowLists == UNION { [1..n -> RowEntries] : n \in 0..MaxItems }

InitRow == \E list \in RowLists : InitWith(list)

NextRow ==
    \/ \E k \in DOMAIN rows : HandleDoubleClick(k)
    \/ \E k \in DOMAIN rows, text \in Texts : SetEditText(k, text)
    \/ \E k \in DOMAIN rows : KeyDownEnter(k)
    \/ \E k \in DOMAIN rows : Blur(k)
    \/ \E k \in DOMAIN rows : KeyDownEscape(k)

SpecRow == InitRow /\ [][NextRow]_vars

(* The keys of the edit input that do not commit: Tab, Shift-Tab and Escape *)

NextKeys ==
    \/ \E k \in DOMAIN rows : HandleDoubleClick(k)
    \/ \E k \in DOMAIN rows, text \in Texts : SetEditText(k, text)
    \/ \E k \in DOMAIN rows, shiftKey \in BOOLEAN : KeyDownTab(k, shiftKey)
    \/ \E k \in DOMAIN rows : KeyDownEscape(k)

SpecKeys == InitRow /\ [][NextKeys]_vars

(* Inline editing while the container takes requests: onToggle and onUpdateText are *)
(* props of the container, callable with any id at any time, also while the row of  *)
(* that id is editing                                                               *)

NextEdit ==
    \/ \E k \in DOMAIN rows : HandleDoubleClick(k)
    \/ \E k \in DOMAIN rows, text \in Texts : SetEditText(k, text)
    \/ \E k \in DOMAIN rows : KeyDownEnter(k)
    \/ \E k \in DOMAIN rows : Blur(k)
    \/ \E k \in DOMAIN rows : KeyDownEscape(k)
    \/ \E id \in Stamps : HandleToggleItem(id)
    \/ \E id \in Stamps, text \in RenameTexts : HandleUpdateItemText(id, text)

SpecEdit == InitRow /\ [][NextEdit]_vars

(* Requests issued before the re-render.  A handler is a closure of the render that *)
(* created it: it reads the checklist.items of that render.  Issue is a request     *)
(* whose update reached the parent while the container has not rendered again, so  *)
(* that the next request still runs in the handlers of the previous render; Render  *)
(* is the re-render.  No row is editing here, so a rendered row is as mounted.      *)

Issue(name, newItems) ==
    /\ items' = newItems
    /\ Ran(name, TRUE, Empty)
    /\ UNCHANGED <<rendered, rows, newItemText, dragItemId, dragOverItemId, draggingId>>

IssueAddSection(stamp) ==
    /\ Len(rendered) < MaxItems
    /\ Issue("addSection", AddSectionItems(rendered, stamp))

IssueToggle(id) == Issue("toggle", ToggleItems(rendered, id))

IssueDelete(id) == Issue("delete", DeleteItems(rendered, id))

IssueUpdateText(id, newText) == Issue("updateText", UpdateTextItems(rendered, id, newText))

IssueIndent(id, direction) == Issue("indent", IndentItems(rendered, id, direction))

Render ==
    /\ rendered # items
    /\ rendered' = items
    /\ rows' = [k \in DOMAIN items |-> NewRow(items[k])]
    /\ Ran("render", FALSE, Empty)
    /\ UNCHANGED <<items, newItemText, dragItemId, dragOverItemId, draggingId>>

NextIssue ==
    \/ \E stamp \in Stamps : IssueAddSection(stamp)
    \/ \E id \in Stamps : IssueToggle(id)
    \/ \E id \in Stamps : IssueDelete(id)
    \/ \E id \in Stamps, text \in RenameTexts : IssueUpdateText(id, text)
    \/ \E id \in Stamps, direction \in Directions : IssueIndent(id, direction)
    \/ Render

SpecIssue == InitFields /\ [][NextIssue]_vars

----------------------------------------------------------------------------
(* Vocabulary of the properties *)

IdsOf(its) == [k \in DOMAIN its |-> its[k].id]

Present(its, id) == \E k \in DOMAIN its : its[k].id = id

\* 0-based position an id resolves to: its first occurrence, -1 when absent
Position(its, id) ==
    IF Present(its, id)
    THEN (CHOOSE k \in DOMAIN its :
            its[k].id = id /\ \A m \in 1..(k - 1) : its[m].id # id) - 1
    ELSE -1

\* empty or whitespace-only
Blank(text) == \A k \in DOMAIN text : text[k] \in {" ", "\t"}

\* the list after a rename of id to text: the items with that id take the text and
\* keep id, type, completed, indentation and position; the others are as before
Renamed(old, new, id, text) ==
    /\ Len(new) = Len(old)
    /\ \A m \in DOMAIN old :
          IF old[m].id = id
          THEN /\ new[m].text = text
               /\ new[m].id = old[m].id
               /\ new[m].type = old[m].type
               /\ new[m].completed = old[m].completed
               /\ new[m].indentation = old[m].indentation
          ELSE new[m] = old[m]

\* every indentation of the list is in 0..5
InRange(its) == \A k \in DOMAIN its : its[k].indentation \in 0..5

\* row k commits: Enter in its edit input, or the input losing the focus
Saves(k) == KeyDownEnter(k) \/ Blur(k)

\* the list [{id:1, text:"A", type:item, completed, indentation}]
ListA(completed, indentation) ==
    <<[id |-> 1, text |-> <<"A">>, type |-> "item", completed |-> completed,
       indentation |-> indentation]>>

\* how many items of the list carry the id
CountId(its, id) == Cardinality({ k \in DOMAIN its : its[k].id = id })

\* how many items of the list carry the id and the type
CountIdType(its, id, type) ==
    Cardinality({ k \in DOMAIN its : its[k].id = id /\ its[k].type = type })

\* the two lists have the same length and, position by position, the same id and
\* type (so the same multiset of ids)
SameIdsInPlace(old, new) ==
    /\ Len(new) = Len(old)
    /\ \A k \in DOMAIN old : new[k].id = old[k].id /\ new[k].type = old[k].type

\* the lists hold the same ids, and the same (id, type) pairs, as often
SameIdBag(old, new) ==
    \A id \in Stamps :
        /\ CountId(new, id) = CountId(old, id)
        /\ \A type \in {"item", "section"} : CountIdType(new, id, type) = CountIdType(old, id, type)

\* the sequence without its element at 0-based index i
Without(s, i) == [k \in 1..(Len(s) - 1) |-> IF k <= i THEN s[k] ELSE s[k + 1]]

----------------------------------------------------------------------------
(* Properties *)

\* C1: a drop with the dragged id at position i and the drag-over id at position
\* j, i # j, leaves the dragged item at index j and every other item in its
\* relative order, none added, lost or altered; from [A,B,C,D], A onto C gives
\* [B,C,A,D] and D onto A gives [D,A,B,C].
ReorderOnDrop ==
    [][HandleDrop =>
        LET i == Position(items, dragItemId)
            j == Position(items, dragOverItemId)
        IN  (i # -1 /\ j # -1 /\ i # j) =>
              /\ Len(items') = Len(items)
              /\ items'[j + 1] = items[i + 1]
              /\ Without(items', j) = Without(items, i)
              /\ (IdsOf(items) = <<1, 2, 3, 4>> /\ dragItemId = 1 /\ dragOverItemId = 3)
                    => IdsOf(items') = <<2, 3, 1, 4>>
              /\ (IdsOf(items) = <<1, 2, 3, 4>> /\ dragItemId = 4 /\ dragOverItemId = 1)
                    => IdsOf(items') = <<4, 1, 2, 3>>
              /\ op'.called]_vars

DroppedAOntoC ==
    /\ op = [name |-> "drop", called |-> TRUE, text |-> Empty]
    /\ dragItemId = 1
    /\ dragOverItemId = 3
    /\ IdsOf(items) = <<2, 3, 1, 4>>

\* C2: a drop changes nothing and calls no update when the dragged id or the
\* drag-over id is unset or absent from the list, or both resolve to one position.
DropIsNoOp ==
    [][HandleDrop =>
        LET i == Position(items, dragItemId)
            j == Position(items, dragOverItemId)
        IN  (dragItemId = Null \/ dragOverItemId = Null \/ i = -1 \/ j = -1 \/ i = j) =>
              /\ items' = items
              /\ ~op'.called]_vars

DroppedDeletedItem ==
    /\ op = [name |-> "drop", called |-> FALSE, text |-> Empty]
    /\ dragItemId # Null
    /\ dragOverItemId # Null
    /\ ~Present(items, dragItemId)
    /\ Present(items, dragOverItemId)

\* C3: the ids of the item list are pairwise distinct in every reachable state.
IdsDistinct ==
    \A i, j \in DOMAIN items : i # j => items[i].id # items[j].id

\* C7: delete(id) of a present id removes exactly that one item, the others
\* keeping their order and contents; delete(id) of an absent id changes nothing.
DeleteRemovesOne ==
    [][\A id \in Stamps : HandleDeleteItem(id) =>
        IF Present(items, id)
        THEN /\ Len(items') = Len(items) - 1
             /\ \E k \in DOMAIN items : items[k].id = id /\ items' = Without(items, k - 1)
        ELSE items' = items]_vars

\* C4, as claimed: add-item with an input that is not blank appends one item whose
\* text is the trimmed input, type item, not completed, indentation 0, keeps the
\* items before it and clears the input.
AddItemAppendsTrimmed ==
    [][\A stamp \in Stamps : (HandleAddItem(stamp) /\ ~Blank(newItemText)) =>
        /\ Len(items') = Len(items) + 1
        /\ SubSeq(items', 1, Len(items)) = items
        /\ items'[Len(items')].text = Trim(newItemText)
        /\ items'[Len(items')].type = "item"
        /\ items'[Len(items')].completed = FALSE
        /\ items'[Len(items')].indentation = 0
        /\ newItemText' = Empty]_vars

\* C4, amended: the text of the appended item is the input as typed, untrimmed.
AddItemAppendsTyped ==
    [][\A stamp \in Stamps : (HandleAddItem(stamp) /\ ~Blank(newItemText)) =>
        /\ Len(items') = Len(items) + 1
        /\ SubSeq(items', 1, Len(items)) = items
        /\ items'[Len(items')].text = newItemText
        /\ items'[Len(items')].type = "item"
        /\ items'[Len(items')].completed = FALSE
        /\ items'[Len(items')].indentation = 0
        /\ newItemText' = Empty]_vars

AddedPaddedItem ==
    /\ op = [name |-> "addItem", called |-> TRUE, text |-> <<" ", "a", " ">>]
    /\ Len(items) = 2
    /\ items[2].text = <<" ", "a", " ">>
    /\ newItemText = Empty

\* C5: add-item with an empty or whitespace-only input changes neither the list
\* nor the input, and calls no update.
AddItemIgnoresBlank ==
    [][\A stamp \in Stamps : (HandleAddItem(stamp) /\ Blank(newItemText)) =>
        /\ items' = items
        /\ newItemText' = newItemText
        /\ ~op'.called]_vars

SubmittedTab ==
    /\ op = [name |-> "addItem", called |-> FALSE, text |-> <<"\t">>]
    /\ newItemText = <<"\t">>
    /\ items # <<>>

\* C6: toggle(id) flips completed on the item with that id and changes no other
\* item and no other field; a second toggle(id) gives the first list back;
\* toggle(id) of an absent id changes nothing.
ToggleFlipsOnlyThatItem ==
    [][\A id \in Stamps : HandleToggleItem(id) =>
        /\ Len(items') = Len(items)
        /\ \A k \in DOMAIN items :
              IF items[k].id = id
              THEN /\ items'[k].completed = ~items[k].completed
                   /\ items'[k].id = items[k].id
                   /\ items'[k].text = items[k].text
                   /\ items'[k].type = items[k].type
                   /\ items'[k].indentation = items[k].indentation
              ELSE items'[k] = items[k]
        /\ ToggleItems(items', id) = items
        /\ ~Present(items, id) => items' = items]_vars

ToggledOneOfTwo ==
    /\ op.name = "toggle"
    /\ Len(items) = 2
    /\ items[1].id # items[2].id
    /\ items[1].completed
    /\ ~items[2].completed

\* C8: every indentation is in 0..5; indent(increase) leaves 5 at 5,
\* indent(decrease) leaves 0 at 0, otherwise the value moves by one; indent on a
\* section leaves the section, and the list, unchanged.
IndentationClamped ==
    [][/\ InRange(items)
       /\ InRange(items')
       /\ \A id \in Stamps, direction \in Directions : HandleIndentItem(id, direction) =>
            /\ Len(items') = Len(items)
            /\ \A k \in DOMAIN items :
                  IF items[k].id = id /\ items[k].type = "item"
                  THEN /\ items'[k] = [items[k] EXCEPT !.indentation = items'[k].indentation]
                       /\ items'[k].indentation =
                            IF direction = "increase"
                            THEN (IF items[k].indentation = 5 THEN 5
                                  ELSE items[k].indentation + 1)
                            ELSE (IF items[k].indentation = 0 THEN 0
                                  ELSE items[k].indentation - 1)
                  ELSE items'[k] = items[k]
            /\ (\A k \in DOMAIN items : items[k].id = id => items[k].type = "section")
                  => items' = items]_vars

IndentedToMax ==
    /\ op.name = "indent"
    /\ \E k, m \in DOMAIN items :
          /\ items[k].type = "item" /\ items[k].indentation = 5
          /\ items[m].type = "section" /\ items[m].indentation = 0

\* C9, as claimed: Enter or blur in an editing row calls rename with the edit
\* buffer exactly when the buffer, untrimmed, is not empty and differs from the
\* item's text; otherwise nothing is called and the buffer is reset to the item's
\* text; the row ends displaying.
CommitsUntrimmed ==
    [][\A k \in DOMAIN rows : Saves(k) =>
        /\ op'.called <=> (rows[k].editText # Empty /\ rows[k].editText # items[k].text)
        /\ op'.called => items'[k].text = rows[k].editText
        /\ ~op'.called => (items' = items /\ rows'[k].editText = items[k].text)
        /\ ~rows'[k].isEditing]_vars

\* C9, amended: rename is called exactly when the buffer is not blank (empty or
\* whitespace-only) and differs from the item's text.
CommitsUnlessBlank ==
    [][\A k \in DOMAIN rows : Saves(k) =>
        /\ op'.called <=> (~Blank(rows[k].editText) /\ rows[k].editText # items[k].text)
        /\ op'.called => items'[k].text = rows[k].editText
        /\ ~op'.called => (items' = items /\ rows'[k].editText = items[k].text)
        /\ ~rows'[k].isEditing]_vars

RevertedWhitespace ==
    /\ op = [name |-> "blur", called |-> FALSE, text |-> <<" ">>]
    /\ \A k \in DOMAIN rows : ~rows[k].isEditing /\ rows[k].editText = items[k].text
    /\ items # <<>>

\* C10, as claimed: committing an empty buffer, or one equal to the text, calls
\* no update and changes nothing; committing any other buffer renames the item.
RenamesUnlessEmpty ==
    [][\A k \in DOMAIN rows : Saves(k) =>
        IF rows[k].editText = Empty \/ rows[k].editText = items[k].text
        THEN ~op'.called /\ items' = items
        ELSE op'.called /\ Renamed(items, items', items[k].id, rows[k].editText)]_vars

\* C10, amended: a whitespace-only buffer is not committed either.
RenamesUnlessBlank ==
    [][\A k \in DOMAIN rows : Saves(k) =>
        IF Blank(rows[k].editText) \/ rows[k].editText = items[k].text
        THEN ~op'.called /\ items' = items
        ELSE op'.called /\ Renamed(items, items', items[k].id, rows[k].editText)]_vars

RenamedSection ==
    /\ op = [name |-> "enter", called |-> TRUE, text |-> <<" ", "a", " ">>]
    /\ Len(items) = 2
    /\ items[1].type = "section" /\ items[1].text = <<" ", "a", " ">> /\ items[1].completed
    /\ items[2].type = "section" /\ items[2].text = NewSection

\* C11: every row starts displaying; a double-click on a displaying row leaves it
\* displaying when its item has type item and is completed, and moves it to editing
\* otherwise: for every uncompleted item and for every section, completed or not.
DoubleClickEntersEditing ==
    /\ \A k \in DOMAIN rows : ~rows[k].isEditing
    /\ [][\A k \in DOMAIN rows : (HandleDoubleClick(k) /\ ~rows[k].isEditing) =>
            /\ rows'[k].isEditing <=> ~(items[k].type = "item" /\ items[k].completed)
            /\ (items[k].type = "section" \/ ~items[k].completed) => rows'[k].isEditing
            /\ \A m \in DOMAIN rows : m # k => rows'[m] = rows[m]
            /\ rows'[k].editText = rows[k].editText
            /\ items' = items]_vars

EditingCompletedSection ==
    /\ op.name = "doubleClick"
    /\ Len(items) = 2
    /\ items[1].type = "item" /\ items[1].completed /\ ~rows[1].isEditing
    /\ items[2].type = "section" /\ items[2].completed /\ rows[2].isEditing

\* C12: Escape in an editing row, whatever its buffer holds, leaves the row
\* displaying with the buffer equal to the item's text, calls no rename and leaves
\* the item list unchanged.
EscapeCancels ==
    [][\A k \in DOMAIN rows : (KeyDownEscape(k) /\ rows[k].isEditing) =>
        /\ ~rows'[k].isEditing
        /\ rows'[k].editText = items[k].text
        /\ ~op'.called
        /\ items' = items
        /\ \A m \in DOMAIN rows : m # k => rows'[m] = rows[m]]_vars

EscapedTypedText ==
    /\ op = [name |-> "escape", called |-> FALSE, text |-> <<" ", "a", " ">>]
    /\ Len(items) = 1
    /\ items[1].text = NewSection
    /\ rows[1] = [isEditing |-> FALSE, editText |-> NewSection]

\* C13: when the text of an item changes while its row is displaying, the row's
\* edit buffer becomes the new text; when it changes while the row is editing, the
\* edit buffer is not overwritten.
BufferResyncsBetweenEdits ==
    [][\A k \in DOMAIN rows :
        (Len(items') = Len(items) /\ items'[k].text # items[k].text) =>
            IF rows[k].isEditing
            THEN rows'[k].editText = rows[k].editText
            ELSE rows'[k].editText = items'[k].text]_vars

\* C14: the end of a drag gesture (dragend, which follows a drop, effective or
\* not, and a cancel alike) is handled in every state and unsets the dragged id,
\* the drag-over id and the dragging id; the dragged id then stays unset until a
\* new drag start, and a drop meanwhile changes nothing.
DragEndClears ==
    [][/\ ENABLED HandleDragEnd
       /\ HandleDragEnd =>
            /\ dragItemId' = Null
            /\ dragOverItemId' = Null
            /\ draggingId' = Null
            /\ items' = items
       /\ (dragItemId = Null /\ dragItemId' # Null) => op'.name = "dragStart"
       /\ (HandleDrop /\ dragItemId = Null) => (items' = items /\ ~op'.called)]_vars

DroppedAfterDragEnd ==
    /\ op = [name |-> "drop", called |-> FALSE, text |-> Empty]
    /\ dragItemId = Null
    /\ draggingId = Null
    /\ Present(items, dragOverItemId)
    /\ Len(items) = MaxRows

\* C15: every mutation request computes its list from the list the requests before
\* it produced, so none of them is lost, also when the container has not rendered
\* again since the request before.
NoLostUpdate ==
    [][/\ \A stamp \in Stamps :
            IssueAddSection(stamp) => items' = AddSectionItems(items, stamp)
       /\ \A id \in Stamps : IssueToggle(id) => items' = ToggleItems(items, id)
       /\ \A id \in Stamps : IssueDelete(id) => items' = DeleteItems(items, id)
       /\ \A id \in Stamps, text \in RenameTexts :
            IssueUpdateText(id, text) => items' = UpdateTextItems(items, id, text)
       /\ \A id \in Stamps, direction \in Directions :
            IssueIndent(id, direction) => items' = IndentItems(items, id, direction)]_vars

\* C16: from [{id:1, text:"A", type:item, completed:false, indentation:0}],
\* toggle(1), indent(1,increase), indent(1,increase) give
\* [{id:1, text:"A", type:item, completed:true, indentation:2}]: indent is applied
\* to completed items, toggle leaves indentation and indent leaves completed.
ToggleThenIndentTwice ==
    [][/\ (HandleToggleItem(1) /\ items = ListA(FALSE, 0)) => items' = ListA(TRUE, 0)
       /\ (HandleIndentItem(1, "increase") /\ items = ListA(TRUE, 0)) => items' = ListA(TRUE, 1)
       /\ (HandleIndentItem(1, "increase") /\ items = ListA(TRUE, 1)) => items' = ListA(TRUE, 2)
       /\ \A id \in Stamps : HandleToggleItem(id) =>
            \A k \in DOMAIN items : items'[k].indentation = items[k].indentation
       /\ \A id \in Stamps, direction \in Directions : HandleIndentItem(id, direction) =>
            \A k \in DOMAIN items :
                /\ items'[k].completed = items[k].completed
                /\ (items[k].id = id /\ items[k].indentation < 5 /\ direction = "increase")
                      => items'[k].indentation = items[k].indentation + 1]_vars

ACompletedAtTwo ==
    /\ op.name = "indent"
    /\ items = ListA(TRUE, 2)

\* C17: Tab in an editing row of type item requests indent(increase) for the row's
\* id, and with the shift modifier indent(decrease); the row stays editing and its
\* buffer is unchanged.  Tab in an editing row of type section requests nothing.
TabIndentsWhileEditing ==
    [][\A k \in DOMAIN rows, shiftKey \in BOOLEAN :
        (KeyDownTab(k, shiftKey) /\ rows[k].isEditing) =>
            /\ IF items[k].type = "item"
               THEN /\ op'.called
                    /\ items' = IndentItems(items, items[k].id,
                                            IF shiftKey THEN "decrease" ELSE "increase")
                    /\ items'[k].indentation =
                         IF shiftKey
                         THEN (IF items[k].indentation = 0 THEN 0 ELSE items[k].indentation - 1)
                         ELSE (IF items[k].indentation = 5 THEN 5 ELSE items[k].indentation + 1)
               ELSE /\ ~op'.called
                    /\ items' = items
            /\ rows' = rows]_vars

TabbedTwiceWhileTyping ==
    /\ op = [name |-> "tab", called |-> TRUE, text |-> <<"\t">>]
    /\ Len(items) = 2
    /\ items[1].type = "item" /\ items[1].indentation = 2
    /\ rows[1] = [isEditing |-> TRUE, editText |-> <<"\t">>]
    /\ items[2].type = "section" /\ items[2].indentation = 0

\* C18: add-section appends exactly one entry at the end of the list, with text
\* "New Section", type section, not completed, indentation 0, whatever the add-item
\* input holds (empty too), and leaves the input and the items before it unchanged.
AddSectionAppends ==
    [][\A stamp \in Stamps : HandleAddSection(stamp) =>
        /\ Len(items') = Len(items) + 1
        /\ SubSeq(items', 1, Len(items)) = items
        /\ items'[Len(items')].text = <<"N", "e", "w", " ", "S", "e", "c", "t", "i", "o", "n">>
        /\ items'[Len(items')].type = "section"
        /\ items'[Len(items')].completed = FALSE
        /\ items'[Len(items')].indentation = 0
        /\ items'[Len(items')].id = stamp
        /\ newItemText' = newItemText
        /\ op'.called]_vars

AddedSectionWhileTyping ==
    /\ op.name = "addSection"
    /\ newItemText = <<"\t">>
    /\ Len(items) = 2
    /\ items[1].type = "item"
    /\ items[2].type = "section" /\ items[2].text = NewSection

\* C19, as claimed: no operation changes the id or the type of an existing item;
\* toggle, rename, indent and reorder keep the length of the list and the multiset
\* of ids; add-item and add-section increase the length by exactly one; delete
\* never increases it.  (op'.name names the handler the step ran.)
SizeChangesAsClaimed ==
    [][/\ op'.name \in {"toggle", "updateText", "indent"} => SameIdsInPlace(items, items')
       /\ op'.name = "drop" => (Len(items') = Len(items) /\ SameIdBag(items, items'))
       /\ op'.name = "addItem" =>
            /\ Len(items') = Len(items) + 1
            /\ SameIdsInPlace(items, SubSeq(items', 1, Len(items)))
       /\ op'.name = "addSection" =>
            /\ Len(items') = Len(items) + 1
            /\ SameIdsInPlace(items, SubSeq(items', 1, Len(items)))
       /\ op'.name = "delete" =>
            /\ Len(items') <= Len(items)
            /\ \A id \in Stamps, type \in {"item", "section"} :
                  CountIdType(items', id, type) <= CountIdType(items, id, type)]_vars

\* C19, amended: add-item increases the length by exactly one when its input is not
\* blank, and leaves the list unchanged when it is.
SizeChangesUnlessBlank ==
    [][/\ op'.name \in {"toggle", "updateText", "indent"} => SameIdsInPlace(items, items')
       /\ op'.name = "drop" => (Len(items') = Len(items) /\ SameIdBag(items, items'))
       /\ op'.name = "addItem" =>
            IF Blank(newItemText)
            THEN items' = items
            ELSE /\ Len(items') = Len(items) + 1
                 /\ SameIdsInPlace(items, SubSeq(items', 1, Len(items)))
       /\ op'.name = "addSection" =>
            /\ Len(items') = Len(items) + 1
            /\ SameIdsInPlace(items, SubSeq(items', 1, Len(items)))
       /\ op'.name = "delete" =>
            /\ Len(items') <= Len(items)
            /\ \A id \in Stamps, type \in {"item", "section"} :
                  CountIdType(items', id, type) <= CountIdType(items, id, type)]_vars

BlankAddAfterEdits ==
    /\ op = [name |-> "addItem", called |-> FALSE, text |-> <<" ">>]
    /\ IdsOf(items) = <<2, 1>>
    /\ items[1].type = "item" /\ items[1].completed /\ items[1].indentation = 1
    /\ items[2].type = "section" /\ items[2].text = <<" ", "a", " ">>
    /\ newItemText = <<" ">>

\* C20: in every reachable state no row is editing while its item has type item
\* and is completed, and no row issues a rename for such an item, the container
\* taking toggle(id) for any id at any time, also while the row of that id is
\* editing.
CompletedItemsLocked ==
    /\ [](\A k \in DOMAIN rows :
            rows[k].isEditing => ~(items[k].type = "item" /\ items[k].completed))
    /\ [][\A k \in DOMAIN rows : (Saves(k) /\ op'.called) =>
            ~(items[k].type = "item" /\ items[k].completed)]_vars

====
